---- MODULE Spec2Model ----
(***************************************************************************)
(* EcoX ML service (ml-service/app.py): the carbon estimation engine, the  *)
(* utility-bill field extractor, the upload pipeline behind /analyze-image *)
(* and the start-up of the regression model.                               *)
(*                                                                         *)
(* Fixed point: quantities are whole kWh, emission factors and CO2 masses  *)
(* are in thousandths of a kg, the rounded co2_kg is in hundredths of a kg *)
(* and confidence scores are in tenths.                                    *)
(***************************************************************************)
EXTENDS Integers, Sequences, FiniteSets, TLC

VARIABLES
    forest,      \* the fitted regression model (process-wide, read-only after start-up)
    tieUp,       \* which way round() takes a decimal tie of the binary float
    estIn,       \* the caller-supplied energy_data of the current estimation request
    estOut,      \* what calculate_from_energy_data returned for estIn
    confOut,     \* the outcome of calculate_confidence(estIn)
    prevConf,    \* the outcome of calculate_confidence before the caller supplied one more field
    recOut,      \* what the /recommendations endpoint produced for estIn as user_profile
    billText,    \* the raw text handed to parse_utility_bill
    billRaises,  \* the fields whose extraction step raises an exception
    billOut,     \* what parse_utility_bill returned for billText
    clock,       \* the wall clock, in whole seconds
    fs,          \* the uploads folder: what is stored under each path
    pc,          \* where each /analyze-image invocation stands
    req,         \* the upload each invocation received
    path,        \* filepath of each invocation
    ocrText,     \* text, the recognised text
    parsed,      \* parsed_data
    carbon,      \* carbon_result
    pending,     \* an exception is propagating out of the inner try block
    resp,        \* the response returned
    readFrom,    \* whose stored file the recognition step read (0: none)
    disturbed,   \* invocations whose stored file another one replaced or deleted before they read it
    artifact,    \* models/carbon_model.joblib on disk
    bpc,         \* where load_models stands
    model,       \* self.model: "none", "loaded" or "fitted"
    found,       \* what os.path.exists(model_path) answered in this start
    loadFailed,  \* joblib.load raised in this start
    fits,        \* calls of RandomForestRegressor.fit in this start
    dumps,       \* calls of joblib.dump in this start
    starts       \* starts of the process so far

modelVars == <<forest, tieUp>>
estVars == <<estIn, estOut, confOut, prevConf, recOut>>

billVars == <<billText, billRaises, billOut>>

pipeVars == <<clock, fs, pc, req, path, ocrText, parsed, carbon, pending, resp,
              readFrom, disturbed>>

bootVars == <<artifact, bpc, model, found, loadFailed, fits, dumps, starts>>

vars == <<modelVars, estVars, billVars, pipeVars, bootVars>>

-----------------------------------------------------------------------------
(* Python values of a JSON request body.  t is the type, v the number a    *)
(* numeric value or a decimal numeral denotes, s the text of other strings *)

Val(t, v, s) == [t |-> t, v |-> v, s |-> s]
Absent     == Val("absent", 0, "")   \* the key is not in the map
Null       == Val("null", 0, "")     \* JSON null, Python None
List       == Val("list", 0, "")     \* a JSON array (unhashable in Python)
Num(n)     == Val("num", n, "")      \* a JSON number
NumStr(n)  == Val("numstr", n, "")   \* a string holding the decimal numeral of n
Str(x)     == Val("str", 0, x)       \* any other string

Raise(msg) == [ok |-> FALSE, fin |-> TRUE, v |-> 0, err |-> msg]
Return(n)  == [ok |-> TRUE, fin |-> TRUE, v |-> n, err |-> ""]
Infinite   == [ok |-> TRUE, fin |-> FALSE, v |-> 0, err |-> ""]

\* dict.get(key, default)
get(data, key, default) == IF data[key].t = "absent" THEN default ELSE data[key]

\* float(x): numbers and numerals convert, "inf" gives infinity, the rest raises
float(x) ==
    CASE x.t \in {"num", "numstr"}    -> Return(x.v)
      [] x.t = "str" /\ x.s = "inf"   -> Infinite
      [] x.t = "str"                  -> Raise("ValueError: could not convert string to float")
      [] OTHER                        -> Raise("TypeError: float() argument must be a string or a real number")

\* int(x): numbers and integer numerals convert, the rest raises
int(x) ==
    CASE x.t \in {"num", "numstr"}    -> Return(x.v)
      [] x.t = "str"                  -> Raise("ValueError: invalid literal for int() with base 10")
      [] OTHER                        -> Raise("TypeError: int() argument must be a string or a real number")

\* kwh > n on a float that may be infinite
Gt(x, n) == ~x.fin \/ x.v > n

EMISSION_FACTORS ==
    ("electricity_grid" :> 416) @@ ("natural_gas" :> 202) @@ ("gasoline" :> 2310) @@
    ("diesel" :> 2680) @@ ("coal" :> 820) @@ ("solar" :> 41) @@ ("wind" :> 11) @@
    ("hydro" :> 24)

\* EMISSION_FACTORS.get(energy_type, EMISSION_FACTORS['electricity_grid'])
EmissionFactor_NoFallback(energy_type) ==
    CASE energy_type.t = "list" -> Raise("TypeError: unhashable type: 'list'")
      [] energy_type.t = "str" /\ energy_type.s \in DOMAIN EMISSION_FACTORS ->
            Return(EMISSION_FACTORS[energy_type.s])
      [] OTHER -> Return(0)

EmissionFactor(energy_type) ==
    CASE energy_type.t = "list" -> Raise("TypeError: unhashable type: 'list'")
      [] energy_type.t = "str" /\ energy_type.s \in DOMAIN EMISSION_FACTORS ->
            Return(EMISSION_FACTORS[energy_type.s])
      [] OTHER -> Return(EMISSION_FACTORS["electricity_grid"])

\* round(n/d) to the nearest integer; a tie goes the way the binary float lies
RoundDiv(n, d, up) ==
    LET q == n \div d
        r == n % d
    IN  IF 2 * r < d THEN q
        ELSE IF 2 * r > d THEN q + 1
        ELSE IF up THEN q + 1 ELSE q

\* self.model.predict([[kwh, household_size, 1.0, 0.8]])[0], in thousandths of a kg.
\* The forest averages training labels, which are all >= 0; it rejects a
\* feature that is not finite.
predict(kwh, household_size) ==
    IF ~kwh.fin THEN Raise("ValueError: Input X contains infinity")
    ELSE LET k == IF kwh.v < 0 THEN 0 ELSE kwh.v
             h == IF household_size < 0 THEN 0 ELSE household_size
         IN  Return(forest.slope * k + forest.head * h + forest.offset)

\* calculate_confidence(data), in tenths: `data['kWh'] > 0` compares the raw
\* value of the map, which raises for anything that is not a number
calculate_confidence(data) ==
    IF data.kWh.t \notin {"absent", "num"}
    THEN Raise("TypeError: '>' not supported between instances of 'str' and 'int'")
    ELSE LET c1 == 5 + (IF data.kWh.t # "absent" /\ data.kWh.v > 0 THEN 2 ELSE 0)
             c2 == c1 + (IF data.type.t # "absent" THEN 1 ELSE 0)
             c3 == c2 + (IF data.household_size.t # "absent" THEN 1 ELSE 0)
             c4 == c3 + (IF data.region.t # "absent" THEN 1 ELSE 0)
         IN  Return(IF c4 < 10 THEN c4 ELSE 10)

\* calculate_savings_potential(data): kWh saved per measure, in hundredths
\* of a kWh (15 %, 12 %, 20 %); co2_saved is always against the grid factor
calculate_savings_potential(data) ==
    LET q == float(get(data, "kWh", Num(0)))
    IN  IF ~q.ok THEN [ok |-> FALSE, err |-> q.err, measures |-> <<>>]
        ELSE [ok |-> TRUE, err |-> "",
              measures |->
                << [measure |-> "led_lighting", kwh_saved |-> q.v * 15,
                    co2_saved |-> q.v * 15 * EMISSION_FACTORS["electricity_grid"],
                    cost_easy |-> "Easy"],
                   [measure |-> "smart_thermostat", kwh_saved |-> q.v * 12,
                    co2_saved |-> q.v * 12 * EMISSION_FACTORS["electricity_grid"],
                    cost_easy |-> "Medium"],
                   [measure |-> "efficient_appliances", kwh_saved |-> q.v * 20,
                    co2_saved |-> q.v * 20 * EMISSION_FACTORS["electricity_grid"],
                    cost_easy |-> "Hard"] >>]

HighUsage       == "High Energy Usage Detected"
LedUpgrade      == "LED Lighting Upgrade"
SmartThermostat == "Smart Thermostat"

\* generate_recommendations(data, co2_amount): the titles, in order
generate_recommendations_inclusive(data) ==
    LET q == float(get(data, "kWh", Num(0)))
    IN  IF ~q.ok THEN [ok |-> FALSE, err |-> q.err, list |-> <<>>]
        ELSE [ok |-> TRUE, err |-> "",
              list |-> (IF Gt(q, 999) THEN <<HighUsage>> ELSE <<>>)
                       \o (IF Gt(q, 499) THEN <<LedUpgrade>> ELSE <<>>)
                       \o <<SmartThermostat>>]

generate_recommendations(data) ==
    LET q == float(get(data, "kWh", Num(0)))
    IN  IF ~q.ok THEN [ok |-> FALSE, err |-> q.err, list |-> <<>>]
        ELSE [ok |-> TRUE, err |-> "",
              list |-> (IF Gt(q, 1000) THEN <<HighUsage>> ELSE <<>>)
                       \o (IF Gt(q, 500) THEN <<LedUpgrade>> ELSE <<>>)
                       \o <<SmartThermostat>>]

NoResult == [kind |-> "none", co2_kg |-> 0, confidence |-> 0, error |-> "",
             energy_type |-> Absent, consumption_kwh |-> 0, emission_factor |-> 0,
             basic_calculation |-> 0, ml_enhanced |-> 0,
             savings_potential |-> <<>>, recommendations |-> <<>>]

Raised(msg) == [NoResult EXCEPT !.kind = "raised", !.error = msg]

\* the body of the try block of calculate_from_energy_data: the result, or
\* the exception the first failing statement raises
estimate_body(data) ==
    IF ~data.isMap THEN Raised("AttributeError: 'NoneType' object has no attribute 'get'")
    ELSE
    LET kwh    == float(get(data, "kWh", Num(0)))
        etype  == get(data, "type", Str("electricity_grid"))
        hh     == int(get(data, "household_size", Num(2)))
        factor == EmissionFactor(etype)
        ml     == predict(kwh, hh.v)
        conf   == calculate_confidence(data)
        sav    == calculate_savings_potential(data)
        recs   == generate_recommendations(data)
        basic  == kwh.v * factor.v
    IN  IF ~kwh.ok THEN Raised(kwh.err)
        ELSE IF ~hh.ok THEN Raised(hh.err)
        ELSE IF ~factor.ok THEN Raised(factor.err)
        ELSE IF ~ml.ok THEN Raised(ml.err)
        ELSE IF ~conf.ok THEN Raised(conf.err)
        ELSE IF ~sav.ok THEN Raised(sav.err)
        ELSE IF ~recs.ok THEN Raised(recs.err)
        ELSE [kind |-> "ok",
              co2_kg |-> RoundDiv(basic + ml.v, 20, tieUp),
              confidence |-> conf.v,
              error |-> "",
              energy_type |-> etype,
              consumption_kwh |-> kwh.v,
              emission_factor |-> factor.v,
              basic_calculation |-> RoundDiv(basic, 10, tieUp),
              ml_enhanced |-> RoundDiv(ml.v, 10, tieUp),
              savings_potential |-> sav.measures,
              recommendations |-> recs.list]

\* calculate_from_energy_data(energy_data): `except Exception` turns every
\* exception of the body into the zero result carrying str(e)
calculate_from_energy_data_uncaught(energy_data) == estimate_body(energy_data)

calculate_from_energy_data(energy_data) ==
    LET r == estimate_body(energy_data)
    IN  IF r.kind = "raised"
        THEN [NoResult EXCEPT !.kind = "error", !.co2_kg = 0, !.confidence = 0,
                              !.error = r.error]
        ELSE r

-----------------------------------------------------------------------------
(* ImageAnalyzer.parse_utility_bill.  A text is a sequence of tokens        *)
(* separated by white space; each token belongs to one lexical class of    *)
(* the patterns.                                                           *)

TokenKind ==
    ("850" :> "num") @@ ("0" :> "num") @@ ("$120" :> "usd") @@
    ("kWh" :> "kwh") @@ ("KWH" :> "kwh") @@
    ("Total Usage:" :> "usage") @@ ("Energy Used:" :> "energy") @@
    ("Total Amount:" :> "total") @@ ("Amount Due:" :> "due") @@
    ("Jan 5, 2024" :> "date") @@ ("Feb 5, 2024" :> "date") @@
    ("PG&E" :> "word") @@ ("coned" :> "word") @@ ("thanks" :> "word")

Tokens == DOMAIN TokenKind

\* the group (\d+(?:\.\d+)?) of a token that holds digits
Numeral(tok) == IF tok = "$120" THEN "120" ELSE tok

\* float(match.group(1))
float_of_numeral(digits) ==
    CASE digits = "850" -> 850
      [] digits = "120" -> 120
      [] digits = "0"   -> 0

\* str.lower()
lower(x) ==
    CASE x = "PG&E"  -> "pg&e"
      [] x = "ConEd" -> "coned"
      [] x = "Duke Energy" -> "duke energy"
      [] x = "Southern Company" -> "southern company"
      [] x = "Electric Company" -> "electric company"
      [] x = "KWH" -> "kwh"
      [] x = "kWh" -> "kwh"
      [] OTHER -> x

\* a pattern: the class that must precede the number, the classes of token
\* the number may be, the class that must follow it ("" for none)
kwh_patterns ==
    << [lead |-> "", num |-> {"num", "usd"}, trail |-> "kwh"],   \* (\d+(?:\.\d+)?)\s*kWh
       [lead |-> "", num |-> {"num", "usd"}, trail |-> "kwh"],   \* (\d+(?:\.\d+)?)\s*KWH
       [lead |-> "usage", num |-> {"num"}, trail |-> ""],        \* Total\s*Usage:?\s*(\d+...)
       [lead |-> "energy", num |-> {"num"}, trail |-> ""] >>     \* Energy\s*Used:?\s*(\d+...)

amount_patterns ==
    << [lead |-> "", num |-> {"usd"}, trail |-> ""],             \* \$(\d+(?:\.\d+)?)
       [lead |-> "total", num |-> {"num", "usd"}, trail |-> ""], \* Total\s*Amount:?\s*\$?(\d+...)
       [lead |-> "due", num |-> {"num", "usd"}, trail |-> ""] >> \* Amount\s*Due:?\s*\$?(\d+...)

providers == <<"PG&E", "ConEd", "Duke Energy", "Southern Company", "Electric Company">>

MatchesAt(pattern, text, i) ==
    /\ TokenKind[text[i]] \in pattern.num
    /\ pattern.lead # "" => (i > 1 /\ TokenKind[text[i - 1]] = pattern.lead)
    /\ pattern.trail # "" => (i < Len(text) /\ TokenKind[text[i + 1]] = pattern.trail)

\* re.search(pattern, text, re.IGNORECASE): the position of the number of
\* the leftmost match, 0 for no match
search(pattern, text) ==
    LET hits == {i \in 1..Len(text) : MatchesAt(pattern, text, i)}
    IN  IF hits = {} THEN 0 ELSE CHOOSE i \in hits : \A j \in hits : i <= j

\* re.findall(date_pattern, text)
RECURSIVE findall_dates(_)
findall_dates(text) ==
    IF text = <<>> THEN <<>>
    ELSE (IF TokenKind[Head(text)] = "date" THEN <<Head(text)>> ELSE <<>>)
         \o findall_dates(Tail(text))

\* provider.lower() in text.lower()
RECURSIVE contains_lower(_, _)
contains_lower(text, name) ==
    /\ text # <<>>
    /\ \/ lower(Head(text)) = lower(name)
       \/ contains_lower(Tail(text), name)

NoBill == [kwh |-> 0, amount |-> 0, service_period |-> <<>>, provider |-> "",
           confidence |-> 0]

\* `for pattern in patterns: match = re.search(...); if match: ...; break`
\* from pattern j on: the field set from the first pattern that matches
RECURSIVE extract_number_no_break(_, _, _, _, _, _)
extract_number_no_break(result, field, patterns, weight, text, j) ==
    IF j > Len(patterns) THEN result
    ELSE LET at == search(patterns[j], text)
             r  == IF at = 0 THEN result
                   ELSE [result EXCEPT ![field] = float_of_numeral(Numeral(text[at])),
                                       !.confidence = @ + weight]
         IN  extract_number_no_break(r, field, patterns, weight, text, j + 1)

RECURSIVE extract_number(_, _, _, _, _, _)
extract_number(result, field, patterns, weight, text, j) ==
    IF j > Len(patterns) THEN result
    ELSE LET at == search(patterns[j], text)
         IN  IF at = 0
             THEN extract_number(result, field, patterns, weight, text, j + 1)
             ELSE [result EXCEPT ![field] = float_of_numeral(Numeral(text[at])),
                                 !.confidence = @ + weight]

extract_period(result, text) ==
    LET dates == findall_dates(text)
    IN  IF Len(dates) >= 2
        THEN [result EXCEPT !.service_period = <<dates[1], " - ", dates[2]>>,
                            !.confidence = @ + 2]
        ELSE result

RECURSIVE extract_provider(_, _, _)
extract_provider(result, text, j) ==
    IF j > Len(providers) THEN result
    ELSE IF contains_lower(text, providers[j])
         THEN [result EXCEPT !.provider = providers[j], !.confidence = @ + 1]
         ELSE extract_provider(result, text, j + 1)

Fields == {"kwh", "amount", "service_period", "provider"}

\* parse_utility_bill(text): the four extraction steps run inside one try
\* block; an exception in a step leaves the block, and the result as it
\* stands is returned.  raises: the steps whose conversion or search raises.
parse_utility_bill(text, raises) ==
    LET r1 == extract_number(NoBill, "kwh", kwh_patterns, 3, text, 1)
        r2 == extract_number(r1, "amount", amount_patterns, 2, text, 1)
        r3 == extract_period(r2, text)
        r4 == extract_provider(r3, text, 1)
    IN  IF "kwh" \in raises /\ r1 # NoBill THEN NoBill         \* at float(match.group(1))
        ELSE IF "amount" \in raises /\ r2 # r1 THEN r1          \* at float(match.group(1))
        ELSE IF "service_period" \in raises THEN r2            \* at re.findall
        ELSE IF "provider" \in raises THEN r3                  \* at provider.lower() in text.lower()
        ELSE [r4 EXCEPT !.confidence = IF @ < 10 THEN @ ELSE 10]

MaxLen == 3

RECURSIVE SeqsUpTo(_, _)
SeqsUpTo(S, n) ==
    IF n = 0 THEN {<<>>}
    ELSE LET shorter == SeqsUpTo(S, n - 1)
         IN  shorter \cup {Append(t, x) : t \in shorter, x \in S}

Texts == SeqsUpTo(Tokens, MaxLen)

NotParsed == [NoBill EXCEPT !.confidence = -1]

BillIdle == billText = <<>> /\ billRaises = {} /\ billOut = NotParsed

\* a text never makes a step raise: float() accepts every numeral the
\* patterns capture
BillInit ==
    /\ billText \in Texts
    /\ billRaises = {}
    /\ billOut = NotParsed

\* the same with a failing extraction step
BillFaultInit ==
    /\ billText \in Texts
    /\ billRaises \in {{f} : f \in Fields}
    /\ billOut = NotParsed

ParseBill ==
    /\ billOut = NotParsed
    /\ billOut' = parse_utility_bill(billText, billRaises)
    /\ UNCHANGED <<billText, billRaises>>
    /\ UNCHANGED <<modelVars, estVars, pipeVars, bootVars>>

-----------------------------------------------------------------------------
(* Requests to the estimation engine                                       *)

KwhInputs == {Absent, Null, Num(-5), Num(0), Num(100), Num(500), Num(501),
              Num(1000), Num(1001), Num(1500), NumStr(600), Str("abc"), Str("inf")}
TypeInputs == {Absent, Null, List, Str("electricity_grid"), Str("diesel"),
               Str("wind"), Str("biomass")}
HouseholdInputs == {Absent, Null, Num(1), Num(4), NumStr(3), Str("abc")}
RegionInputs == {Absent, Str("US"), Str("EU")}

\* request.get_json(): a JSON object, or null
NoMap == [isMap |-> FALSE, kWh |-> Absent, type |-> Absent,
          household_size |-> Absent, region |-> Absent]
EnergyMaps == [isMap : {TRUE}, kWh : KwhInputs, type : TypeInputs,
               household_size : HouseholdInputs, region : RegionInputs]
FieldInputs == [kWh |-> KwhInputs, type |-> TypeInputs,
                household_size |-> HouseholdInputs, region |-> RegionInputs]

\* no model fitted or loaded yet
NoForest == [slope |-> 0, head |-> 0, offset |-> 0]

\* the forests start-up can produce: every prediction is a mean of labels >= 0
Forests == [slope : {0, 499}, head : {3}, offset : {0, 5}]

NotCalled == [ok |-> FALSE, fin |-> TRUE, v |-> -1, err |-> ""]
NoRecs    == [ok |-> FALSE, err |-> "", list |-> <<>>]

EstIdle ==
    /\ estIn = NoMap /\ estOut = NoResult
    /\ confOut = NotCalled /\ prevConf = NotCalled /\ recOut = NoRecs

EstInit ==
    /\ estIn \in EnergyMaps \cup {NoMap}
    /\ estOut = NoResult
    /\ confOut = NotCalled
    /\ prevConf = NotCalled
    /\ recOut = NoRecs

\* POST /calculate-carbon
calculate_carbon ==
    /\ estOut.kind = "none"
    /\ estOut' = calculate_from_energy_data(estIn)
    /\ UNCHANGED <<estIn, confOut, prevConf, recOut>>
    /\ UNCHANGED <<modelVars, billVars, pipeVars, bootVars>>

\* calculate_confidence applied to the request map
ScoreConfidence ==
    /\ estIn.isMap
    /\ confOut = NotCalled
    /\ confOut' = calculate_confidence(estIn)
    /\ UNCHANGED <<estIn, estOut, prevConf, recOut>>
    /\ UNCHANGED <<modelVars, billVars, pipeVars, bootVars>>

\* POST /recommendations with estIn as user_profile: an exception of
\* generate_recommendations becomes the endpoint's error response
get_recommendations ==
    /\ estIn.isMap
    /\ recOut = NoRecs
    /\ recOut' = generate_recommendations(estIn)
    /\ UNCHANGED <<estIn, estOut, confOut, prevConf>>
    /\ UNCHANGED <<modelVars, billVars, pipeVars, bootVars>>

\* does the map supply field f (for kWh: a positive quantity)
Supplies(data, f) ==
    IF f = "kWh" THEN data.kWh.t \in {"num", "numstr"} /\ data.kWh.v > 0
    ELSE data[f].t # "absent"

\* the caller sends the map again with one more field supplied
Supply(f, x) ==
    /\ estIn.isMap
    /\ confOut # NotCalled
    /\ ~Supplies(estIn, f)
    /\ Supplies([estIn EXCEPT ![f] = x], f)
    /\ estIn' = [estIn EXCEPT ![f] = x]
    /\ prevConf' = confOut
    /\ confOut' = NotCalled
    /\ estOut' = NoResult
    /\ recOut' = NoRecs
    /\ UNCHANGED <<modelVars, billVars, pipeVars, bootVars>>

EstNext ==
    \/ calculate_carbon
    \/ ScoreConfidence
    \/ get_recommendations
    \/ \E f \in DOMAIN FieldInputs : \E x \in FieldInputs[f] : Supply(f, x)

-----------------------------------------------------------------------------
(* POST /analyze-image                                                     *)

MaxInvocations == 2
MaxClock == 1
ExcerptLen == 500

Invocations == 1..MaxInvocations
Filenames == {"bill.png", "scan.png"}
Images == {"bill850", "billZero", "broken"}
Paths == (0..MaxClock) \X Filenames

\* what pytesseract reads off each image
ImageText(image) ==
    CASE image = "bill850"  -> <<"Total Usage:", "850", "kWh", "Amount Due:", "$120",
                                "Jan 5, 2024", "Feb 5, 2024", "PG&E">>
      [] image = "billZero" -> <<"0", "kWh", "Amount Due:", "$120", "coned">>

NoFile == [image |-> "", by |-> 0]
NoUpload == [file |-> "none", filename |-> "", image |-> "", respFault |-> FALSE]
NoPath == <<0, "">>
NoResponse == [status |-> 0, success |-> FALSE, ocr_text |-> <<>>, parsed_data |-> NoBill,
               carbon_analysis |-> NoResult, error |-> ""]

\* request.files: no 'file' part, a part with an empty filename, or an
\* image under a client filename; respFault: building the response raises
Uploads ==
    {NoUpload, [NoUpload EXCEPT !.file = "empty"]}
    \cup [file : {"named"}, filename : Filenames, image : Images, respFault : BOOLEAN]

Failure(code, msg) == [NoResponse EXCEPT !.status = code, !.error = msg]

\* ocrText[:500]
Excerpt(t) == SubSeq(t, 1, IF Len(t) < ExcerptLen THEN Len(t) ELSE ExcerptLen)

\* ImageAnalyzer.extract_text_from_image(image_path): any exception of
\* opening, preprocessing or recognising the image gives ""
extract_text_from_image(file) ==
    IF file = NoFile \/ file.image = "broken" THEN <<>> ELSE ImageText(file.image)

PipeIdle ==
    /\ clock = 0
    /\ fs = [p \in Paths |-> NoFile]
    /\ pc = [i \in Invocations |-> "idle"]
    /\ req = [i \in Invocations |-> NoUpload]
    /\ path = [i \in Invocations |-> NoPath]
    /\ ocrText = [i \in Invocations |-> <<>>]
    /\ parsed = [i \in Invocations |-> NoBill]
    /\ carbon = [i \in Invocations |-> NoResult]
    /\ pending = [i \in Invocations |-> FALSE]
    /\ resp = [i \in Invocations |-> NoResponse]
    /\ readFrom = [i \in Invocations |-> 0]
    /\ disturbed = {}

\* datetime.now() moves on
Tick ==
    /\ clock < MaxClock
    /\ clock' = clock + 1
    /\ UNCHANGED <<fs, pc, req, path, ocrText, parsed, carbon, pending, resp, readFrom, disturbed>>
    /\ UNCHANGED <<modelVars, estVars, billVars, bootVars>>

\* the request arrives: the two checks of request.files, then filename and filepath
Receive(i, upload) ==
    /\ pc[i] = "idle"
    /\ req' = [req EXCEPT ![i] = upload]
    /\ IF upload.file = "none"
       THEN /\ resp' = [resp EXCEPT ![i] = Failure(400, "No file uploaded")]
            /\ pc' = [pc EXCEPT ![i] = "done"]
            /\ UNCHANGED path
       ELSE IF upload.file = "empty"
       THEN /\ resp' = [resp EXCEPT ![i] = Failure(400, "No file selected")]
            /\ pc' = [pc EXCEPT ![i] = "done"]
            /\ UNCHANGED path
       ELSE /\ path' = [path EXCEPT ![i] = <<clock, upload.filename>>]
            /\ pc' = [pc EXCEPT ![i] = "save"]
            /\ UNCHANGED resp
    /\ UNCHANGED <<clock, fs, ocrText, parsed, carbon, pending, readFrom, disturbed>>
    /\ UNCHANGED <<modelVars, estVars, billVars, bootVars>>

\* the invocations that stored a file under p and have not read it yet
Waiting(p, i) == {j \in Invocations \ {i} : pc[j] = "ocr" /\ path[j] = p /\ fs[p].by = j}

\* file.save(filepath)
Save(i) ==
    /\ pc[i] = "save"
    /\ fs' = [fs EXCEPT ![path[i]] = [image |-> req[i].image, by |-> i]]
    /\ disturbed' = disturbed \cup Waiting(path[i], i)
    /\ pc' = [pc EXCEPT ![i] = "ocr"]
    /\ UNCHANGED <<clock, req, path, ocrText, parsed, carbon, pending, resp, readFrom>>
    /\ UNCHANGED <<modelVars, estVars, billVars, bootVars>>

\* ocrText = image_analyzer.extract_text_from_image(filepath)
Recognise(i) ==
    /\ pc[i] = "ocr"
    /\ ocrText' = [ocrText EXCEPT ![i] = extract_text_from_image(fs[path[i]])]
    /\ readFrom' = [readFrom EXCEPT ![i] = fs[path[i]].by]
    /\ pc' = [pc EXCEPT ![i] = "parse"]
    /\ UNCHANGED <<clock, fs, req, path, parsed, carbon, pending, resp, disturbed>>
    /\ UNCHANGED <<modelVars, estVars, billVars, bootVars>>

\* parsed_data = image_analyzer.parse_utility_bill(ocrText)
Extract(i) ==
    /\ pc[i] = "parse"
    /\ parsed' = [parsed EXCEPT ![i] = parse_utility_bill(ocrText[i], {})]
    /\ pc' = [pc EXCEPT ![i] = "estimate"]
    /\ UNCHANGED <<clock, fs, req, path, ocrText, carbon, pending, resp, readFrom, disturbed>>
    /\ UNCHANGED <<modelVars, estVars, billVars, bootVars>>

\* {'kWh': parsed_data['kwh'], 'type': 'electricity_grid'}
EnergyRecord(kwh) ==
    [NoMap EXCEPT !.isMap = TRUE, !.kWh = Num(kwh), !.type = Str("electricity_grid")]

\* carbon_result = None; if parsed_data['kwh'] > 0: carbon_result = ...
EstimateStep(kwh) ==
    IF kwh > 0 THEN calculate_from_energy_data(EnergyRecord(kwh)) ELSE NoResult

Estimate(i) ==
    /\ pc[i] = "estimate"
    /\ carbon' = [carbon EXCEPT ![i] = EstimateStep(parsed[i].kwh)]
    /\ pc' = [pc EXCEPT ![i] = "respond"]
    /\ UNCHANGED <<clock, fs, req, path, ocrText, parsed, pending, resp, readFrom, disturbed>>
    /\ UNCHANGED <<modelVars, estVars, billVars, bootVars>>

Success(t, data, result) ==
    [NoResponse EXCEPT !.status = 200, !.success = TRUE, !.ocr_text = Excerpt(t),
                       !.parsed_data = data, !.carbon_analysis = result]

\* return jsonify({...}) inside try ... finally: the value is kept, or the
\* exception propagates, and the finally block runs next in both cases
Respond_NoFinally(i) ==
    /\ pc[i] = "respond"
    /\ IF req[i].respFault
       THEN /\ resp' = [resp EXCEPT ![i] = Failure(500, "response could not be built")]
            /\ pc' = [pc EXCEPT ![i] = "done"]
            /\ UNCHANGED pending
       ELSE /\ resp' = [resp EXCEPT ![i] = Success(ocrText[i], parsed[i], carbon[i])]
            /\ pc' = [pc EXCEPT ![i] = "finally"]
            /\ UNCHANGED pending
    /\ UNCHANGED <<clock, fs, req, path, ocrText, parsed, carbon, readFrom, disturbed>>
    /\ UNCHANGED <<modelVars, estVars, billVars, bootVars>>

Respond(i) ==
    /\ pc[i] = "respond"
    /\ IF req[i].respFault
       THEN /\ pending' = [pending EXCEPT ![i] = TRUE]
            /\ UNCHANGED resp
       ELSE /\ resp' = [resp EXCEPT ![i] = Success(ocrText[i], parsed[i], carbon[i])]
            /\ UNCHANGED pending
    /\ pc' = [pc EXCEPT ![i] = "finally"]
    /\ UNCHANGED <<clock, fs, req, path, ocrText, parsed, carbon, readFrom, disturbed>>
    /\ UNCHANGED <<modelVars, estVars, billVars, bootVars>>

\* leaving the inner try: a pending exception reaches `except Exception`
\* and becomes the 500 response, otherwise the kept value is returned
Leave(i, raised) ==
    /\ resp' = [resp EXCEPT ![i] = IF raised THEN Failure(500, "exception") ELSE @]
    /\ pending' = [pending EXCEPT ![i] = FALSE]
    /\ pc' = [pc EXCEPT ![i] = "done"]

\* finally: if os.path.exists(filepath):
CheckExists(i) ==
    /\ pc[i] = "finally"
    /\ IF fs[path[i]] # NoFile
       THEN /\ pc' = [pc EXCEPT ![i] = "remove"]
            /\ UNCHANGED <<resp, pending>>
       ELSE Leave(i, pending[i])
    /\ UNCHANGED <<clock, fs, req, path, ocrText, parsed, carbon, readFrom, disturbed>>
    /\ UNCHANGED <<modelVars, estVars, billVars, bootVars>>

\* os.remove(filepath): FileNotFoundError when the file is gone by now
Remove(i) ==
    /\ pc[i] = "remove"
    /\ IF fs[path[i]] # NoFile
       THEN /\ fs' = [fs EXCEPT ![path[i]] = NoFile]
            /\ disturbed' = disturbed \cup Waiting(path[i], i)
            /\ Leave(i, pending[i])
       ELSE /\ Leave(i, TRUE)
            /\ UNCHANGED <<fs, disturbed>>
    /\ UNCHANGED <<clock, req, path, ocrText, parsed, carbon, readFrom>>
    /\ UNCHANGED <<modelVars, estVars, billVars, bootVars>>

analyze_image(i) ==
    \/ \E upload \in Uploads : Receive(i, upload)
    \/ Save(i)
    \/ Recognise(i)
    \/ Extract(i)
    \/ Estimate(i)
    \/ Respond(i)
    \/ CheckExists(i)
    \/ Remove(i)

-----------------------------------------------------------------------------
(* CarbonCalculator.load_models at process start                           *)

MaxStarts == 4

NoArtifact == [state |-> "absent", forest |-> NoForest]
Artifacts ==
    {NoArtifact, [state |-> "corrupt", forest |-> NoForest]}
    \cup [state : {"good"}, forest : Forests]

\* the process is up: the model is in place and is not changed any more
BootDone ==
    /\ bpc = "ready" /\ model = "fitted" /\ found = "no" /\ loadFailed = FALSE
    /\ fits = 1 /\ dumps = 1 /\ starts = 1
    /\ artifact = [state |-> "good", forest |-> forest]

BootInit ==
    /\ artifact \in Artifacts
    /\ bpc = "check" /\ model = "none" /\ found = "none" /\ loadFailed = FALSE
    /\ fits = 0 /\ dumps = 0 /\ starts = 1
    /\ forest = NoForest /\ tieUp = FALSE

\* if os.path.exists(model_path):
CheckArtifact ==
    /\ bpc = "check"
    /\ found' = IF artifact.state = "absent" THEN "no" ELSE "yes"
    /\ bpc' = IF artifact.state = "absent" THEN "create" ELSE "load"
    /\ UNCHANGED <<artifact, model, loadFailed, fits, dumps, starts>>
    /\ UNCHANGED <<modelVars, estVars, billVars, pipeVars>>

\* self.model = joblib.load(model_path); a failure reaches `except
\* Exception`, which calls create_default_model()
LoadArtifact_NoFallback ==
    /\ bpc = "load"
    /\ IF artifact.state = "good"
       THEN /\ model' = "loaded"
            /\ forest' = artifact.forest
            /\ bpc' = "ready"
            /\ UNCHANGED loadFailed
       ELSE /\ loadFailed' = TRUE
            /\ bpc' = "crashed"
            /\ UNCHANGED <<model, forest>>
    /\ UNCHANGED <<artifact, found, fits, dumps, starts, tieUp>>
    /\ UNCHANGED <<estVars, billVars, pipeVars>>

LoadArtifact ==
    /\ bpc = "load"
    /\ IF artifact.state = "good"
       THEN /\ model' = "loaded"
            /\ forest' = artifact.forest
            /\ bpc' = "ready"
            /\ UNCHANGED loadFailed
       ELSE /\ loadFailed' = TRUE
            /\ bpc' = "create"
            /\ UNCHANGED <<model, forest>>
    /\ UNCHANGED <<artifact, found, fits, dumps, starts, tieUp>>
    /\ UNCHANGED <<estVars, billVars, pipeVars>>

\* create_default_model(): the synthetic data and self.model.fit(X, y)
FitDefault(f) ==
    /\ bpc = "create"
    /\ model' = "fitted"
    /\ forest' = f
    /\ fits' = fits + 1
    /\ bpc' = "dump"
    /\ UNCHANGED <<artifact, found, loadFailed, dumps, starts, tieUp>>
    /\ UNCHANGED <<estVars, billVars, pipeVars>>

\* joblib.dump(self.model, .../carbon_model.joblib)
DumpDefault ==
    /\ bpc = "dump"
    /\ artifact' = [state |-> "good", forest |-> forest]
    /\ dumps' = dumps + 1
    /\ bpc' = "ready"
    /\ UNCHANGED <<model, found, loadFailed, fits, starts>>
    /\ UNCHANGED <<modelVars, estVars, billVars, pipeVars>>

\* the process is started again; while it was down the artifact may have
\* been deleted or damaged
Restart(a) ==
    /\ bpc = "ready"
    /\ starts < MaxStarts
    /\ a \in {artifact, NoArtifact, [state |-> "corrupt", forest |-> NoForest]}
    /\ artifact' = a
    /\ starts' = starts + 1
    /\ bpc' = "check" /\ model' = "none" /\ found' = "none" /\ loadFailed' = FALSE
    /\ fits' = 0 /\ dumps' = 0
    /\ forest' = NoForest
    /\ UNCHANGED <<tieUp, estVars, billVars, pipeVars>>

load_models ==
    \/ CheckArtifact
    \/ LoadArtifact
    \/ \E f \in Forests : FitDefault(f)
    \/ DumpDefault

BootNext == load_models \/ \E a \in Artifacts : Restart(a)

\* the service handles uploads once start-up is over
Started == forest \in Forests /\ BootDone

Init == Started /\ tieUp \in BOOLEAN /\ PipeIdle /\ EstIdle /\ BillIdle

Next == Tick \/ \E i \in Invocations : analyze_image(i)

Spec == Init /\ [][Next]_vars

\* the estimation engine applied to one request map
InitEst == Started /\ tieUp \in BOOLEAN /\ EstInit /\ BillIdle /\ PipeIdle
SpecEst == InitEst /\ [][EstNext]_vars

\* the field extractor applied to one text
InitBill == Started /\ tieUp = FALSE /\ BillInit /\ EstIdle /\ PipeIdle
BillNext == ParseBill
SpecBill == InitBill /\ [][BillNext]_vars

\* the field extractor with one extraction step raising
InitBillFault == Started /\ tieUp = FALSE /\ BillFaultInit /\ EstIdle /\ PipeIdle
SpecBillFault == InitBillFault /\ [][BillNext]_vars

\* start-up of the regression model
InitBoot == BootInit /\ EstIdle /\ BillIdle /\ PipeIdle
SpecBoot == InitBoot /\ [][BootNext]_vars

-----------------------------------------------------------------------------
(* Properties of the estimation engine                                     *)

\* a statement of the try block fails on this input
SomeStepFails(data) ==
    \/ ~data.isMap                                            \* missing map
    \/ data.kWh.t \in {"null", "list"}                        \* malformed quantity
    \/ data.kWh.t = "str"                                     \* non-numeric or infinite quantity
    \/ data.kWh.t = "numstr"                                  \* numeral compared with 0
    \/ data.household_size.t \in {"null", "list", "str"}      \* non-integer household_size
    \/ data.type.t = "list"                                   \* unhashable source kind

\* C2: calculate_from_energy_data never raises: every call returns either a
\* result or, whenever a conversion or computation step fails, the zero
\* result (co2_kg = 0, confidence = 0) carrying an error description.
C2_EstimateNeverRaises ==
    estOut.kind # "none" =>
        /\ estOut.kind \in {"ok", "error"}
        /\ SomeStepFails(estIn) =>
              /\ estOut.kind = "error"
              /\ estOut.co2_kg = 0
              /\ estOut.confidence = 0
              /\ estOut.error # ""
        /\ ~SomeStepFails(estIn) => estOut.kind = "ok"

C2_Witness ==
    /\ estOut.kind = "error"
    /\ estIn.isMap
    /\ estIn.kWh = Str("abc")
    /\ estOut.error # ""

\* quantity times the looked-up factor, unknown kinds taking the grid factor
FormulaEstimate(data) ==
    LET q == IF data.kWh.t = "absent" THEN 0 ELSE data.kWh.v
        k == IF data.type.t = "absent" THEN "electricity_grid" ELSE data.type.s
    IN  q * (IF k \in DOMAIN EMISSION_FACTORS THEN EMISSION_FACTORS[k]
             ELSE EMISSION_FACTORS["electricity_grid"])

ModelEstimate(data) ==
    predict(float(get(data, "kWh", Num(0))),
            int(get(data, "household_size", Num(2))).v).v

\* C3: on every successful estimate of a quantity >= 0, co2_kg is >= 0 and
\* is the unweighted mean of the formula estimate and the model's
\* prediction, to within the rounding to two decimals (half a hundredth).
C3_UnweightedMean ==
    (estOut.kind = "ok" /\ estOut.consumption_kwh >= 0) =>
        LET twice == FormulaEstimate(estIn) + ModelEstimate(estIn)   \* 2 * mean, thousandths
            got   == 20 * estOut.co2_kg                              \* 2 * co2_kg, thousandths
        IN  /\ estOut.co2_kg >= 0
            /\ got - twice <= 10
            /\ twice - got <= 10

C3_Witness ==
    /\ estOut.kind = "ok"
    /\ estIn.kWh = Num(1500)
    /\ estIn.type = Str("biomass")
    /\ estOut.emission_factor = EMISSION_FACTORS["electricity_grid"]
    /\ estOut.co2_kg > 0

\* the score the rule gives: base 0.5, +0.2 for a quantity > 0, +0.1 for
\* each of source kind, household_size and region present in the map
RuleScore(data) ==
    5 + (IF Supplies(data, "kWh") THEN 2 ELSE 0)
      + (IF Supplies(data, "type") THEN 1 ELSE 0)
      + (IF Supplies(data, "household_size") THEN 1 ELSE 0)
      + (IF Supplies(data, "region") THEN 1 ELSE 0)

\* C4: for every map whose quantity is a finite number or numeral, the
\* confidence computation yields the rule's score, which lies in [0,1], and
\* the score does not decrease when one more field is supplied.
C4_ConfidenceMonotone ==
    (confOut # NotCalled /\ estIn.kWh.t \in {"absent", "num", "numstr"}) =>
        /\ confOut.ok
        /\ confOut.v = RuleScore(estIn)
        /\ 0 <= confOut.v /\ confOut.v <= 10
        /\ (prevConf.ok => confOut.v >= prevConf.v)

\* what remains true of C4: the same, for maps whose quantity is absent or a
\* JSON number
C4_HoldsForNumbers ==
    (confOut # NotCalled /\ estIn.kWh.t \in {"absent", "num"}) =>
        /\ confOut.ok
        /\ confOut.v = RuleScore(estIn)
        /\ 0 <= confOut.v /\ confOut.v <= 10
        /\ (prevConf.ok => confOut.v >= prevConf.v)

\* C5: the recommendation list is [high-usage warning, LED upgrade, smart
\* thermostat] for q > 1000, [LED upgrade, smart thermostat] for
\* 500 < q <= 1000 and [smart thermostat] for q <= 500, both from the
\* recommendations endpoint and inside a successful estimate.
C5_RecommendationOrder ==
    LET q == float(get(estIn, "kWh", Num(0)))
        Expected == IF ~q.fin \/ q.v > 1000 THEN <<HighUsage, LedUpgrade, SmartThermostat>>
                    ELSE IF q.v > 500 THEN <<LedUpgrade, SmartThermostat>>
                    ELSE <<SmartThermostat>>
    IN  /\ recOut.ok =>
              /\ recOut.list = Expected
              /\ recOut.list[Len(recOut.list)] = SmartThermostat
              /\ \A i \in 1..Len(recOut.list) :
                    recOut.list[i] = HighUsage => i = 1
        /\ estOut.kind = "ok" => estOut.recommendations = Expected

C5_Witness ==
    /\ recOut.ok
    /\ estIn.kWh = Num(1000)
    /\ recOut.list = <<LedUpgrade, SmartThermostat>>

-----------------------------------------------------------------------------
(* Properties of the upload pipeline                                       *)

\* the invocation stored its upload (file.save returned)
Stored(i) == pc[i] \notin {"idle", "save"} /\ req[i].file = "named"

\* C1: once an invocation that stored its upload has returned, the file it
\* stored is gone, whichever way it left: success response, failed
\* recognition, or an exception while the response was built.
C1_UploadReleased ==
    \A i \in Invocations :
        (pc[i] = "done" /\ Stored(i)) => fs[path[i]].by # i

C1_Witness ==
    \E i \in Invocations :
        /\ pc[i] = "done"
        /\ Stored(i)
        /\ req[i].respFault
        /\ resp[i].status = 500
        /\ fs[path[i]] = NoFile

\* the response of an invocation that runs with no other one around
AloneResponse(upload) ==
    CASE upload.file = "none"  -> Failure(400, "No file uploaded")
      [] upload.file = "empty" -> Failure(400, "No file selected")
      [] upload.respFault      -> Failure(500, "exception")
      [] OTHER ->
            LET t == extract_text_from_image([image |-> upload.image, by |-> 0])
                d == parse_utility_bill(t, {})
            IN  Success(t, d, EstimateStep(d.kwh))

\* C6: an invocation whose response can be built returns success; the
\* estimation result is present exactly when the extracted quantity is
\* > 0; and when the recognised text is empty the extracted data is all
\* defaults with confidence 0 and the estimation result is absent.
C6_EstimateIffQuantity ==
    \A i \in Invocations :
        (pc[i] = "done" /\ Stored(i) /\ ~req[i].respFault) =>
            /\ resp[i].success
            /\ resp[i].parsed_data = parse_utility_bill(ocrText[i], {})
            /\ (resp[i].carbon_analysis # NoResult) <=> (resp[i].parsed_data.kwh > 0)
            /\ ocrText[i] = <<>> =>
                  /\ resp[i].parsed_data = NoBill
                  /\ resp[i].carbon_analysis = NoResult

\* what remains true of C6: the order of the steps and the condition of the
\* estimate, on the values the pipeline holds once the estimate step is over
C6_HoldsInsidePipeline ==
    \A i \in Invocations :
        pc[i] \in {"respond", "finally", "remove"} =>
            /\ parsed[i] = parse_utility_bill(ocrText[i], {})
            /\ (carbon[i] # NoResult) <=> (parsed[i].kwh > 0)
            /\ ocrText[i] = <<>> => (parsed[i] = NoBill /\ carbon[i] = NoResult)

\* C7: concurrent invocations are independent: each reads only the file it
\* stored itself, no stored file is replaced or deleted by another
\* invocation before its owner has read it, and each returns the response
\* it returns when run alone.
C7_InvocationsIndependent ==
    \A i \in Invocations :
        /\ Stored(i) /\ pc[i] # "ocr" => readFrom[i] = i
        /\ i \notin disturbed
        /\ pc[i] = "done" => resp[i] = AloneResponse(req[i])

-----------------------------------------------------------------------------
(* Properties of start-up                                                  *)

\* C10: start-up never fails and ends with a usable model: an artifact that
\* is present and loads is used, with no bootstrap and no rewrite of the
\* artifact; with no artifact the bootstrap model is fitted and written
\* exactly once; when loading fails the bootstrap model is fitted instead.
C10_StartupEndsWithModel ==
    /\ bpc # "crashed"
    /\ bpc = "ready" =>
          /\ model \in {"loaded", "fitted"}
          /\ forest \in Forests
          /\ (found = "yes" /\ ~loadFailed) =>
                (model = "loaded" /\ fits = 0 /\ dumps = 0 /\ forest = artifact.forest)
          /\ found = "no" =>
                (model = "fitted" /\ fits = 1 /\ dumps = 1 /\ artifact.state = "good")
          /\ loadFailed => (model = "fitted" /\ fits = 1 /\ artifact.state = "good")

C10_Witness ==
    /\ bpc = "ready"
    /\ loadFailed
    /\ model = "fitted"
    /\ artifact = [state |-> "good", forest |-> forest]

-----------------------------------------------------------------------------
(* Properties of the bill field extractor                                  *)

\* the text holds a match of some pattern of the field
KwhMatched(text) ==
    \E i \in 1..Len(text) :
        /\ TokenKind[text[i]] \in {"num", "usd"}
        /\ \/ i < Len(text) /\ TokenKind[text[i + 1]] = "kwh"
           \/ /\ TokenKind[text[i]] = "num"
              /\ i > 1
              /\ TokenKind[text[i - 1]] \in {"usage", "energy"}

AmountMatched(text) ==
    \E i \in 1..Len(text) :
        \/ TokenKind[text[i]] = "usd"
        \/ /\ TokenKind[text[i]] = "num"
           /\ i > 1
           /\ TokenKind[text[i - 1]] \in {"total", "due"}

DatesFound(text) == Cardinality({i \in 1..Len(text) : TokenKind[text[i]] = "date"})

ProviderMatched(text) == \E i \in 1..Len(text) : text[i] \in {"PG&E", "coned"}

Contribution(text, field) ==
    CASE field = "kwh"            -> IF KwhMatched(text) THEN 3 ELSE 0
      [] field = "amount"         -> IF AmountMatched(text) THEN 2 ELSE 0
      [] field = "service_period" -> IF DatesFound(text) >= 2 THEN 2 ELSE 0
      [] field = "provider"       -> IF ProviderMatched(text) THEN 1 ELSE 0

C9_ConfidenceIsSumOfMatches ==
    billOut # NotParsed =>
        /\ billOut.confidence = Contribution(billText, "kwh")
                              + Contribution(billText, "amount")
                              + Contribution(billText, "service_period")
                              + Contribution(billText, "provider")
        /\ 0 <= billOut.confidence /\ billOut.confidence <= 10
        /\ ~KwhMatched(billText) => billOut.kwh = 0
        /\ ~AmountMatched(billText) => billOut.amount = 0
        /\ ~ProviderMatched(billText) => billOut.provider = ""
        /\ (billOut.service_period # <<>>) <=> (DatesFound(billText) >= 2)

C9_Witness ==
    /\ billOut # NotParsed
    /\ billText = <<"Total Usage:", "850", "kWh">>
    /\ billOut.kwh = 850
    /\ billOut.confidence = 3
====
